---- MODULE Spec2Model ----
(***************************************************************************)
(* Model of glados::cufft::plan<type> (include/glados/cufft/plan.h) and of *)
(* the thread-coordinate helpers (include/ddrf/cuda/coordinates.h).         *)
(*                                                                         *)
(* A plan object is a pair (valid_, handle_).  The native cuFFT library is *)
(* the environment: it hands out identifiers, keeps the set of live        *)
(* resources and answers every call with a status.                         *)
(***************************************************************************)
EXTENDS Integers, Sequences, FiniteSets, TLC

\* ------------------------------------------------------------------ bounds
MaxPlans == 2
MaxHandles == 2
MaxDestroyCalls == 2

Objs == 1..MaxPlans
Handles == 1..MaxHandles

\* ------------------------------------------------- types of the native API
cufftType == {"CUFFT_R2C", "CUFFT_C2R", "CUFFT_C2C", "CUFFT_D2Z", "CUFFT_Z2D", "CUFFT_Z2Z"}

ElemTypes == {"cufftReal", "cufftComplex", "cufftDoubleReal", "cufftDoubleComplex"}

cufftResult ==
    {"CUFFT_SUCCESS", "CUFFT_INVALID_PLAN", "CUFFT_ALLOC_FAILED", "CUFFT_INVALID_TYPE",
     "CUFFT_INVALID_VALUE", "CUFFT_INTERNAL_ERROR", "CUFFT_EXEC_FAILED",
     "CUFFT_SETUP_FAILED", "CUFFT_INVALID_SIZE", "CUFFT_UNALIGNED_DATA"}

Directions == {"CUFFT_FORWARD", "CUFFT_INVERSE"}

Ctors == {"cufftPlan1d", "cufftPlan2d", "cufftPlan3d", "cufftPlanMany"}

\* ------------------------------------------------------- detail:: helpers
\* type_chooser<I, O>::value exists only for the six specialisations.
type_chooser ==
    (<<"cufftReal", "cufftComplex">> :> "CUFFT_R2C") @@
    (<<"cufftComplex", "cufftReal">> :> "CUFFT_C2R") @@
    (<<"cufftComplex", "cufftComplex">> :> "CUFFT_C2C") @@
    (<<"cufftDoubleReal", "cufftDoubleComplex">> :> "CUFFT_D2Z") @@
    (<<"cufftDoubleComplex", "cufftDoubleReal">> :> "CUFFT_Z2D") @@
    (<<"cufftDoubleComplex", "cufftDoubleComplex">> :> "CUFFT_Z2Z")

type_mapper ==
    ("cufftReal" :> "cufftComplex") @@
    ("cufftComplex" :> "cufftReal") @@
    ("cufftDoubleReal" :> "cufftDoubleComplex") @@
    ("cufftDoubleComplex" :> "cufftDoubleReal")

\* The private overload set cufft_exec(I*, O*): which native routine a pair
\* of pointer types resolves to.
cufft_exec2 ==
    (<<"cufftReal", "cufftComplex">> :> "cufftExecR2C") @@
    (<<"cufftDoubleReal", "cufftDoubleComplex">> :> "cufftExecD2Z") @@
    (<<"cufftComplex", "cufftReal">> :> "cufftExecC2R") @@
    (<<"cufftDoubleComplex", "cufftDoubleReal">> :> "cufftExecZ2D")

\* The private overload set cufft_exec(I*, O*, int).
cufft_exec3 ==
    (<<"cufftComplex", "cufftComplex">> :> "cufftExecC2C") @@
    (<<"cufftDoubleComplex", "cufftDoubleComplex">> :> "cufftExecZ2Z")

\* Defect variant of Accepts2: the static_assert comparing the pair's kind with
\* transformation_type is missing.
Accepts2_NoKindCheck(I, O, t) ==
    /\ I # O
    /\ <<I, O>> \in DOMAIN type_chooser
    /\ O = type_mapper[I]
    /\ <<I, O>> \in DOMAIN cufft_exec2

\* The three static_asserts of execute(I*, O*) plus overload resolution of
\* the forwarded call: TRUE iff the call site compiles for plan<t>.
Accepts2(I, O, t) ==
    /\ I # O
    /\ <<I, O>> \in DOMAIN type_chooser
    /\ type_chooser[<<I, O>>] = t
    /\ O = type_mapper[I]
    /\ <<I, O>> \in DOMAIN cufft_exec2

\* The three static_asserts of execute(I*, O*, int) plus overload resolution.
Accepts3(I, O, t) ==
    /\ I = O
    /\ <<I, O>> \in DOMAIN type_chooser
    /\ type_chooser[<<I, O>>] = t
    /\ O = type_mapper[I]
    /\ <<I, O>> \in DOMAIN cufft_exec3

\* Defect variant of handle_result: the CUFFT_ALLOC_FAILED case reports a
\* runtime_error.
handle_result_AllocAsRuntime(res) ==
    CASE res = "CUFFT_SUCCESS" -> "none"
      [] res = "CUFFT_INVALID_PLAN" -> "invalid_argument"
      [] res = "CUFFT_ALLOC_FAILED" -> "runtime_error"
      [] res = "CUFFT_INVALID_VALUE" -> "invalid_argument"
      [] res = "CUFFT_INTERNAL_ERROR" -> "runtime_error"
      [] res = "CUFFT_EXEC_FAILED" -> "runtime_error"
      [] res = "CUFFT_SETUP_FAILED" -> "runtime_error"
      [] res = "CUFFT_INVALID_SIZE" -> "invalid_argument"
      [] OTHER -> "runtime_error: Unknown error."

\* handle_result: the exception thrown for a native status ("none": returns).
handle_result(res) ==
    CASE res = "CUFFT_SUCCESS" -> "none"
      [] res = "CUFFT_INVALID_PLAN" -> "invalid_argument"
      [] res = "CUFFT_ALLOC_FAILED" -> "bad_alloc"
      [] res = "CUFFT_INVALID_VALUE" -> "invalid_argument"
      [] res = "CUFFT_INTERNAL_ERROR" -> "runtime_error"
      [] res = "CUFFT_EXEC_FAILED" -> "runtime_error"
      [] res = "CUFFT_SETUP_FAILED" -> "runtime_error"
      [] res = "CUFFT_INVALID_SIZE" -> "invalid_argument"
      [] OTHER -> "runtime_error: Unknown error."

\* ------------------------------------------------------------------- state
VARIABLES
    transformation_type,  \* the template argument of plan<type>
    alive,                \* plan objects whose lifetime has begun and not ended
    valid_,               \* plan::valid_
    handle_,              \* plan::handle_
    live,                 \* native resources created and not yet released
    destroyCalls,         \* number of cufftDestroy calls issued per identifier
    nextHandle,           \* next identifier the native library hands out
    last,                 \* what the most recent operation did
    gridDim,              \* extents of the launched grid, per axis
    blockDim,             \* extents of a block, per axis
    blockIdx,             \* the executing thread's block index, per axis
    threadIdx,            \* the executing thread's index within its block, per axis
    coord                 \* the value the last coord_x/y/z call returned

planVars == <<transformation_type, alive, valid_, handle_, live, destroyCalls, nextHandle, last>>

gridVars == <<gridDim, blockDim, blockIdx, threadIdx, coord>>

vars == <<planVars, gridVars>>

\* Record of an operation: the native call it issued (fn = "none": no call),
\* the identifier passed to / written by that call, the transform kind passed,
\* the status the library returned, the exception that left the operation and,
\* for execute call sites, the compiler's verdict.
Did(op, fn, h, k, st, ex, I, O, ok) ==
    [op |-> op, fn |-> fn, handle |-> h, kind |-> k, status |-> st,
     raised |-> ex, I |-> I, O |-> O, compiles |-> ok]

NoCall(op) == Did(op, "none", 0, "none", "none", "none", "none", "none", TRUE)

\* Statuses the library can answer with for a call on identifier h: a call on
\* an identifier that names no live resource is answered CUFFT_INVALID_PLAN.
NativeStatus(h) == IF h \in live THEN cufftResult ELSE {"CUFFT_INVALID_PLAN"}

Axes == {"x", "y", "z"}

NoCoord == [axis |-> "none", value |-> <<0, 0>>]

\* No kernel is running: a grid of one thread.
InitGrid ==
    /\ gridDim = [a \in Axes |-> 1]
    /\ blockDim = [a \in Axes |-> 1]
    /\ blockIdx = [a \in Axes |-> 0]
    /\ threadIdx = [a \in Axes |-> 0]
    /\ coord = NoCoord

InitPlans ==
    /\ alive = {}
    /\ valid_ = [p \in Objs |-> FALSE]
    /\ handle_ = [p \in Objs |-> 0]
    /\ live = {}
    /\ destroyCalls = [h \in Handles |-> 0]
    /\ nextHandle = 1
    /\ last = NoCall("start")

Init ==
    /\ transformation_type \in cufftType
    /\ InitPlans
    /\ InitGrid

\* plan() noexcept = default
DefaultConstruct(p) ==
    /\ p \notin alive
    /\ alive' = alive \cup {p}
    /\ valid_' = [valid_ EXCEPT ![p] = FALSE]
    /\ handle_' = [handle_ EXCEPT ![p] = 0]
    /\ last' = NoCall("plan()")
    /\ UNCHANGED <<gridVars, transformation_type, live, destroyCalls, nextHandle>>

\* Defect variant of Construct: the member initialiser valid_{true} is missing.
Construct_NotMarkedValid(p, ctor, st) ==
    /\ p \notin alive
    /\ IF st = "CUFFT_SUCCESS"
         THEN /\ nextHandle <= MaxHandles
              /\ alive' = alive \cup {p}
              /\ valid_' = [valid_ EXCEPT ![p] = FALSE]
              /\ handle_' = [handle_ EXCEPT ![p] = nextHandle]
              /\ live' = live \cup {nextHandle}
              /\ nextHandle' = nextHandle + 1
              /\ last' = Did("construct", ctor, nextHandle, transformation_type, st,
                             handle_result(st), "none", "none", TRUE)
         ELSE /\ last' = Did("construct", ctor, 0, transformation_type, st,
                             handle_result(st), "none", "none", TRUE)
              /\ UNCHANGED <<alive, valid_, handle_, live, nextHandle>>
    /\ UNCHANGED <<gridVars, transformation_type, destroyCalls>>

\* plan(int nx), plan(int nx, int ny), plan(int nx, int ny, int nz),
\* plan(int rank, ...): valid_{true}, then handle_result(cufftPlanXX(&handle_, ...)).
\* A throwing constructor leaves no object behind and runs no destructor.
Construct(p, ctor, st) ==
    /\ p \notin alive
    /\ IF st = "CUFFT_SUCCESS"
         THEN /\ nextHandle <= MaxHandles
              /\ alive' = alive \cup {p}
              /\ valid_' = [valid_ EXCEPT ![p] = TRUE]
              /\ handle_' = [handle_ EXCEPT ![p] = nextHandle]
              /\ live' = live \cup {nextHandle}
              /\ nextHandle' = nextHandle + 1
              /\ last' = Did("construct", ctor, nextHandle, transformation_type, st,
                             handle_result(st), "none", "none", TRUE)
         ELSE /\ last' = Did("construct", ctor, 0, transformation_type, st,
                             handle_result(st), "none", "none", TRUE)
              /\ UNCHANGED <<alive, valid_, handle_, live, nextHandle>>
    /\ UNCHANGED <<gridVars, transformation_type, destroyCalls>>

\* plan(const plan& other)
CopyConstruct(p, other) ==
    /\ p \notin alive
    /\ other \in alive
    /\ alive' = alive \cup {p}
    /\ handle_' = [handle_ EXCEPT ![p] = handle_[other]]
    /\ valid_' = [valid_ EXCEPT ![p] = valid_[other]]
    /\ last' = NoCall("plan(const plan&)")
    /\ UNCHANGED <<gridVars, transformation_type, live, destroyCalls, nextHandle>>

\* operator=(const plan& other)
CopyAssign(p, other) ==
    /\ p \in alive
    /\ other \in alive
    /\ handle_' = [handle_ EXCEPT ![p] = handle_[other]]
    /\ valid_' = [valid_ EXCEPT ![p] = valid_[other]]
    /\ last' = NoCall("operator=(const plan&)")
    /\ UNCHANGED <<gridVars, transformation_type, alive, live, destroyCalls, nextHandle>>

\* plan(plan&& other)
MoveConstruct(p, other) ==
    /\ p \notin alive
    /\ other \in alive
    /\ alive' = alive \cup {p}
    /\ handle_' = [handle_ EXCEPT ![p] = handle_[other]]
    /\ valid_' = [valid_ EXCEPT ![p] = valid_[other], ![other] = FALSE]
    /\ last' = NoCall("plan(plan&&)")
    /\ UNCHANGED <<gridVars, transformation_type, live, destroyCalls, nextHandle>>

\* Defect variant of MoveAssign: other.valid_ = false is missing.
MoveAssign_KeepsSource(p, other) ==
    /\ p \in alive
    /\ other \in alive
    /\ handle_' = [handle_ EXCEPT ![p] = handle_[other]]
    /\ valid_' = [valid_ EXCEPT ![p] = valid_[other]]
    /\ last' = NoCall("operator=(plan&&)")
    /\ UNCHANGED <<gridVars, transformation_type, alive, live, destroyCalls, nextHandle>>

\* operator=(plan&& other): three assignments in program order.
MoveAssign(p, other) ==
    /\ p \in alive
    /\ other \in alive
    /\ handle_' = [handle_ EXCEPT ![p] = handle_[other]]
    /\ valid_' = [[valid_ EXCEPT ![p] = valid_[other]] EXCEPT ![other] = FALSE]
    /\ last' = NoCall("operator=(plan&&)")
    /\ UNCHANGED <<gridVars, transformation_type, alive, live, destroyCalls, nextHandle>>

\* ~plan() { if(valid_) cufftDestroy(handle_); }   The returned status is
\* discarded.  The object's storage is gone afterwards.
Destroy(p, st) ==
    /\ p \in alive
    /\ alive' = alive \ {p}
    /\ valid_' = [valid_ EXCEPT ![p] = FALSE]
    /\ handle_' = [handle_ EXCEPT ![p] = 0]
    /\ IF valid_[p]
         THEN /\ st \in NativeStatus(handle_[p])
              /\ handle_[p] \in Handles
              /\ destroyCalls[handle_[p]] < MaxDestroyCalls
              /\ destroyCalls' = [destroyCalls EXCEPT ![handle_[p]] = @ + 1]
              /\ live' = IF st = "CUFFT_SUCCESS" THEN live \ {handle_[p]} ELSE live
              /\ last' = Did("~plan", "cufftDestroy", handle_[p], "none", st, "none",
                             "none", "none", TRUE)
         ELSE /\ st = "CUFFT_SUCCESS"
              /\ last' = NoCall("~plan")
              /\ UNCHANGED <<live, destroyCalls>>
    /\ UNCHANGED <<gridVars, transformation_type, nextHandle>>

\* get(): returns handle_.
Get(p) ==
    /\ p \in alive
    /\ last' = [NoCall("get") EXCEPT !.handle = handle_[p]]
    /\ UNCHANGED <<gridVars, transformation_type, alive, valid_, handle_, live, destroyCalls, nextHandle>>

\* execute(I* idata, O* odata): static_asserts, then cufft_exec(idata, odata),
\* which is handle_result(cufftExecXX(handle_, idata, odata)).
Execute2(p, I, O, st) ==
    /\ p \in alive
    /\ IF Accepts2(I, O, transformation_type)
         THEN /\ st \in NativeStatus(handle_[p])
              /\ last' = Did("execute2", cufft_exec2[<<I, O>>], handle_[p], "none", st,
                             handle_result(st), I, O, TRUE)
         ELSE /\ st = "CUFFT_SUCCESS"
              /\ last' = Did("execute2", "none", 0, "none", "none", "none", I, O, FALSE)
    /\ UNCHANGED <<gridVars, transformation_type, alive, valid_, handle_, live, destroyCalls, nextHandle>>

\* execute(I* idata, O* odata, int direction): static_asserts, then
\* cufft_exec(idata, odata, direction).
Execute3(p, I, O, dir, st) ==
    /\ p \in alive
    /\ IF Accepts3(I, O, transformation_type)
         THEN /\ st \in NativeStatus(handle_[p])
              /\ last' = Did("execute3", cufft_exec3[<<I, O>>], handle_[p], "none", st,
                             handle_result(st), I, O, TRUE)
         ELSE /\ st = "CUFFT_SUCCESS"
              /\ last' = Did("execute3", "none", 0, "none", "none", "none", I, O, FALSE)
    /\ UNCHANGED <<gridVars, transformation_type, alive, valid_, handle_, live, destroyCalls, nextHandle>>

\* Defect variant of SetStream: the status of cufftSetStream is dropped.
SetStream_Unchecked(p, st) ==
    /\ p \in alive
    /\ st \in NativeStatus(handle_[p])
    /\ last' = Did("set_stream", "cufftSetStream", handle_[p], "none", st,
                   "none", "none", "none", TRUE)
    /\ UNCHANGED <<gridVars, transformation_type, alive, valid_, handle_, live, destroyCalls, nextHandle>>

\* set_stream(stream): handle_result(cufftSetStream(handle_, stream)).
SetStream(p, st) ==
    /\ p \in alive
    /\ st \in NativeStatus(handle_[p])
    /\ last' = Did("set_stream", "cufftSetStream", handle_[p], "none", st,
                   handle_result(st), "none", "none", TRUE)
    /\ UNCHANGED <<gridVars, transformation_type, alive, valid_, handle_, live, destroyCalls, nextHandle>>

\* Call sites of execute over all pointer-type pairs (what a translation unit
\* may contain before it is compiled) and those that compile for plan<type>.
CallSites == ElemTypes \X ElemTypes

Compiled2 == {io \in CallSites : Accepts2(io[1], io[2], transformation_type)}

Compiled3 == {io \in CallSites : Accepts3(io[1], io[2], transformation_type)}

\* For the lifetime of plan objects only three outcomes of a native call differ:
\* success, the rejection of an identifier, and any other failure.  Programs
\* with several plans draw statuses from one representative of each, and are
\* instantiated for one kind that has a compiling execute call site and one
\* that has none.
RunStatus == {"CUFFT_SUCCESS", "CUFFT_INVALID_PLAN", "CUFFT_INTERNAL_ERROR"}

RunKinds == {"CUFFT_R2C", "CUFFT_C2C"}

InitRun ==
    /\ transformation_type \in RunKinds
    /\ InitPlans
    /\ InitGrid

\* Construction, move and destruction: the operations that begin or end a
\* plan's lifetime or hand its resource over.
NextMove ==
    \/ \E p \in Objs : DefaultConstruct(p)
    \/ \E p \in Objs, c \in Ctors, st \in RunStatus : Construct(p, c, st)
    \/ \E p, q \in Objs : MoveConstruct(p, q)
    \/ \E p, q \in Objs : MoveAssign(p, q)
    \/ \E p \in Objs, st \in RunStatus : Destroy(p, st)

\* The operations of a running program that never copies a plan.  Only call
\* sites that compiled exist at run time; no execute(I*, O*, int) call site
\* compiles (Compiled3 = {}).
NextNoCopy ==
    \/ NextMove
    \/ \E p \in Objs : Get(p)
    \/ \E p \in Objs, io \in Compiled2, st \in RunStatus : Execute2(p, io[1], io[2], st)
    \/ \E p \in Objs, st \in RunStatus : SetStream(p, st)

\* Construction, copy, move and destruction.
Next ==
    \/ NextMove
    \/ \E p, q \in Objs : CopyConstruct(p, q)
    \/ \E p, q \in Objs : CopyAssign(p, q)

\* A program with a single plan<type> object, for every kind, every native
\* status and every execute call site over the four element types: the
\* compiler's verdict on each call site is recorded.
NextOnePlan ==
    \/ DefaultConstruct(1)
    \/ \E c \in Ctors, st \in cufftResult : Construct(1, c, st)
    \/ \E st \in cufftResult : Destroy(1, st)
    \/ Get(1)
    \/ \E io \in CallSites, st \in cufftResult : Execute2(1, io[1], io[2], st)
    \/ \E io \in CallSites, d \in Directions, st \in cufftResult : Execute3(1, io[1], io[2], d, st)
    \/ \E st \in cufftResult : SetStream(1, st)

\* ------------------------------------------------- coordinates.h: 32 bits
\* An unsigned int is held as <<high half, low half>> of 16 bits each, so that
\* values up to 2^32 - 1 and the wrap-around of the product are exact.
MaxExtent == 2

Half == 65536

Byte == 256

\* Grids whose extents are at most MaxExtent are enumerated in full; of a
\* grid with a large extent the first and the last thread are drawn, and the
\* block at which blockIdx * blockDim reaches 2^32.
GridExtents == {MaxExtent, 2147483647}

BlockExtents == {1, MaxExtent, 1024}

BlockIdxSamples == (0..(MaxExtent - 1)) \cup {4194304, 2147483646}

ThreadIdxSamples == (0..(MaxExtent - 1)) \cup {1023}

\* The block indices the hardware assigns in a grid of extent g (blockIdx < gridDim).
BlockIdxOf(g) == IF g <= MaxExtent THEN 0..(g - 1) ELSE {0, 4194304, 2147483646}

\* The thread indices the hardware assigns in a block of extent d (threadIdx < blockDim).
ThreadIdxOf(d) == IF d <= MaxExtent THEN 0..(d - 1) ELSE {0, 1023}

\* unsigned int * unsigned int: the low 32 bits of the product, by halves.
UMul32(a, b) ==
    LET ah == a \div Half
        al == a % Half
        bh == b \div Half
        bl == b % Half
        u == al * (bl % Byte)
        v == al * (bl \div Byte)
        losum == (u % Half) + (v % Byte) * Byte
        cross == ((ah * bl) % Half) + ((al * bh) % Half)
    IN  <<((u \div Half) + (v \div Byte) + (losum \div Half) + cross) % Half, losum % Half>>

\* unsigned int + unsigned int: the low 32 bits of the sum.
UAdd32(w, t) ==
    LET losum == w[2] + (t % Half)
    IN  <<(w[1] + (t \div Half) + (losum \div Half)) % Half, losum % Half>>

\* blockIdx.a * blockDim.a + threadIdx.a
Coord(bIdx, bDim, tIdx) == UAdd32(UMul32(bIdx, bDim), tIdx)

coord_x == Coord(blockIdx["x"], blockDim["x"], threadIdx["x"])

\* Defect variant of coord_y: the block extent of the x axis is used.
coord_y_WrongExtent == Coord(blockIdx["y"], blockDim["x"], threadIdx["y"])

coord_y == Coord(blockIdx["y"], blockDim["y"], threadIdx["y"])

coord_z == Coord(blockIdx["z"], blockDim["z"], threadIdx["z"])

\* A kernel launch fixes the extents of the grid, and the hardware gives the
\* executing thread its identifiers, which it keeps for its whole life.
InitCoord ==
    /\ transformation_type = "CUFFT_C2C"
    /\ InitPlans
    /\ gridDim \in [Axes -> GridExtents]
    /\ blockDim \in [Axes -> BlockExtents]
    /\ blockIdx \in [Axes -> BlockIdxSamples]
    /\ threadIdx \in [Axes -> ThreadIdxSamples]
    /\ \A a \in Axes : blockIdx[a] \in BlockIdxOf(gridDim[a])
    /\ \A a \in Axes : threadIdx[a] \in ThreadIdxOf(blockDim[a])
    /\ coord = NoCoord

CoordX ==
    /\ coord' = [axis |-> "x", value |-> coord_x]
    /\ UNCHANGED <<planVars, gridDim, blockDim, blockIdx, threadIdx>>

CoordY ==
    /\ coord' = [axis |-> "y", value |-> coord_y]
    /\ UNCHANGED <<planVars, gridDim, blockDim, blockIdx, threadIdx>>

CoordZ ==
    /\ coord' = [axis |-> "z", value |-> coord_z]
    /\ UNCHANGED <<planVars, gridDim, blockDim, blockIdx, threadIdx>>

NextCoord ==
    \/ CoordX
    \/ CoordY
    \/ CoordZ

Spec == InitRun /\ [][Next]_vars

SpecMove == InitRun /\ [][NextMove]_vars

SpecNoCopy == InitRun /\ [][NextNoCopy]_vars

SpecOnePlan == Init /\ [][NextOnePlan]_vars

SpecCoord == InitCoord /\ [][NextCoord]_vars

\* ================================================================ properties

\* C1 (as claimed, under Spec): every valid plan holds the identifier of a live
\* native resource, and no two plan objects are valid for the same identifier.
C1_SingleOwner ==
    \A p \in alive :
        valid_[p] =>
            /\ handle_[p] \in live
            /\ \A q \in alive \ {p} : ~(valid_[q] /\ handle_[q] = handle_[p])

\* C2 (as claimed, under SpecMove): once every plan object has been destroyed,
\* each identifier handed out by a successful construction has been passed to
\* cufftDestroy exactly once.
C2_ReleasedExactlyOnce ==
    alive = {} => \A h \in Handles : h < nextHandle => destroyCalls[h] = 1

\* Destroying a plan whose valid_ is false issues no native call and releases
\* nothing.
DestroyInvalidIsSilent ==
    \A p \in alive :
        (~valid_[p] /\ \E st \in cufftResult : Destroy(p, st)) =>
            /\ last'.fn = "none"
            /\ destroyCalls' = destroyCalls
            /\ live' = live

C4_Accepted ==
    {<<"cufftComplex", "cufftComplex", "CUFFT_C2C">>,
     <<"cufftDoubleComplex", "cufftDoubleComplex", "CUFFT_Z2Z">>}

C4_Routine == ("CUFFT_C2C" :> "cufftExecC2C") @@ ("CUFFT_Z2Z" :> "cufftExecZ2Z")

\* C4 (as claimed, under SpecOnePlan): an execute(input, output, direction) call
\* site compiles exactly for (complex, complex) on a C2C plan and
\* (double-complex, double-complex) on a Z2Z plan, and then calls the matching
\* native routine.
C4_DirectionalAccepted ==
    last.op = "execute3" =>
        /\ last.compiles <=> (<<last.I, last.O, transformation_type>> \in C4_Accepted)
        /\ last.compiles => last.fn = C4_Routine[transformation_type]

\* The triples C5 says the two-argument execute accepts, and the native routine
\* of each plan kind.
C5_Accepted ==
    {<<"cufftReal", "cufftComplex", "CUFFT_R2C">>,
     <<"cufftComplex", "cufftReal", "CUFFT_C2R">>,
     <<"cufftDoubleReal", "cufftDoubleComplex", "CUFFT_D2Z">>,
     <<"cufftDoubleComplex", "cufftDoubleReal", "CUFFT_Z2D">>}

C5_Routine ==
    ("CUFFT_R2C" :> "cufftExecR2C") @@ ("CUFFT_C2R" :> "cufftExecC2R") @@
    ("CUFFT_D2Z" :> "cufftExecD2Z") @@ ("CUFFT_Z2D" :> "cufftExecZ2D")

\* C5 (under SpecOnePlan): an execute(input, output) call site compiles exactly
\* for the one pair of differing, paired types that belongs to the plan's kind
\* (none on a C2C or Z2Z plan), and every compiled call is forwarded to the
\* native exec routine of the plan's own kind with the plan's identifier.
C5_NonDirectionalAccepted ==
    last.op = "execute2" =>
        /\ last.compiles <=> (<<last.I, last.O, transformation_type>> \in C5_Accepted)
        /\ last.compiles =>
              /\ last.I # last.O
              /\ transformation_type \in DOMAIN C5_Routine
              /\ last.fn = C5_Routine[transformation_type]
              /\ last.handle = handle_[1]
        /\ ~last.compiles => last.fn = "none"

\* C5 witness: a (double-complex, real-double) call on a Z2D plan compiled and
\* ran cufftExecZ2D successfully.
C5_Witness ==
    /\ last.op = "execute2"
    /\ last.compiles
    /\ transformation_type = "CUFFT_Z2D"
    /\ last.fn = "cufftExecZ2D"
    /\ last.status = "CUFFT_SUCCESS"

\* The error kind C6 names for each native status.
C6_Expected(st) ==
    IF st = "CUFFT_SUCCESS" THEN "none"
    ELSE IF st \in {"CUFFT_INVALID_PLAN", "CUFFT_INVALID_VALUE", "CUFFT_INVALID_SIZE"}
        THEN "invalid_argument"
    ELSE IF st = "CUFFT_ALLOC_FAILED" THEN "bad_alloc"
    ELSE IF st \in {"CUFFT_INTERNAL_ERROR", "CUFFT_EXEC_FAILED", "CUFFT_SETUP_FAILED"}
        THEN "runtime_error"
    ELSE "runtime_error: Unknown error."

\* C6 (under SpecOnePlan): whatever status a plan-creation call returns, the
\* constructor raises the error kind that status is documented to have, and
\* nothing on success.
C6_ConstructionErrors ==
    last.op = "construct" =>
        /\ last.fn \in Ctors
        /\ last.raised = C6_Expected(last.status)
        /\ (last.raised = "none") <=> (last.status = "CUFFT_SUCCESS")

\* C6 witness: a plan-creation call answered CUFFT_ALLOC_FAILED and the
\* constructor raised bad_alloc.
C6_Witness ==
    /\ last.op = "construct"
    /\ last.status = "CUFFT_ALLOC_FAILED"
    /\ last.raised = "bad_alloc"
    /\ 1 \notin alive

\* C7 (as claimed, under SpecOnePlan): every native call that returns a
\* non-success status raises an error to the caller.
C7_EveryStatusSurfaced ==
    (last.fn # "none" /\ last.status # "CUFFT_SUCCESS") => last.raised # "none"

\* C7 (amended, under SpecOnePlan): every native call other than the
\* cufftDestroy of the destructor raises the error of its non-success status;
\* the destructor raises nothing whatever cufftDestroy returns.
C7_StatusSurfacedExceptDestroy ==
    /\ (last.fn \notin {"none", "cufftDestroy"} /\ last.status # "CUFFT_SUCCESS") =>
           (last.raised # "none" /\ last.raised = C6_Expected(last.status))
    /\ last.fn \notin {"none", "cufftDestroy"} /\ last.status = "CUFFT_SUCCESS" =>
           last.raised = "none"
    /\ last.fn = "cufftDestroy" => last.raised = "none"

\* C7 witness: cufftSetStream on a live plan failed and set_stream raised.
C7_Witness ==
    /\ last.fn = "cufftSetStream"
    /\ last.status = "CUFFT_INTERNAL_ERROR"
    /\ last.raised = "runtime_error"
    /\ last.handle \in live

\* C8 (under SpecOnePlan): for each sizing constructor, a successful native
\* call leaves a valid plan that holds the identifier the call wrote, a failed
\* one leaves no plan object and issues no cufftDestroy, and in both cases the
\* kind passed to the native call is the plan's transformation_type.
C8_SizingConstructors ==
    [][\A p \in Objs, c \in Ctors, st \in cufftResult :
          Construct(p, c, st) =>
              /\ last'.fn = c
              /\ last'.kind = transformation_type
              /\ st = "CUFFT_SUCCESS" =>
                    /\ p \in alive'
                    /\ valid_'[p]
                    /\ handle_'[p] = last'.handle
                    /\ last'.handle \in live' \ live
              /\ st # "CUFFT_SUCCESS" =>
                    /\ alive' = alive
                    /\ live' = live
                    /\ destroyCalls' = destroyCalls
                    /\ last'.raised # "none"]_vars

\* C8 witness: cufftPlanMany succeeded for a D2Z plan, which is now valid and
\* holds the identifier of the new resource.
C8_Witness ==
    /\ last.op = "construct"
    /\ last.fn = "cufftPlanMany"
    /\ last.status = "CUFFT_SUCCESS"
    /\ last.kind = "CUFFT_D2Z"
    /\ 1 \in alive
    /\ valid_[1]
    /\ handle_[1] = last.handle
    /\ handle_[1] \in live

\* C10 (as claimed, under SpecNoCopy): set_stream and execute issue their
\* native call only from a plan that is valid and whose identifier names a live
\* resource.
C10_CallsOnlyOnOwned ==
    [][\A p \in Objs, st \in cufftResult :
          (SetStream(p, st) \/ \E io \in Compiled2 : Execute2(p, io[1], io[2], st)) =>
              (valid_[p] /\ handle_[p] \in live)]_vars

\* C9, the arithmetic the claim refers to: the product by doubling and adding
\* and the sum, both on <<high half, low half>> and both modulo 2^32.
C9_Word(n) == <<n \div 65536, n % 65536>>

C9_Plus(w, v) ==
    <<(w[1] + v[1] + ((w[2] + v[2]) \div 65536)) % 65536, (w[2] + v[2]) % 65536>>

RECURSIVE C9_Times(_, _)
C9_Times(w, n) ==
    IF n = 0 THEN <<0, 0>>
    ELSE C9_Plus(IF n % 2 = 1 THEN w ELSE <<0, 0>>, C9_Times(C9_Plus(w, w), n \div 2))

C9_Expected(b, d, t) == C9_Plus(C9_Times(C9_Word(b), d), C9_Word(t))

\* grid extent * block extent <= 2^32, without leaving 31 bits.
C9_InRange(g, d) ==
    \/ d = 1
    \/ g - 2 * (2147483647 \div d) <= (2 * (2147483647 % d) + 2) \div d

\* The identifiers of an axis that the model draws threads from.
C9_Threads(a) == BlockIdxOf(gridDim[a]) \X ThreadIdxOf(blockDim[a])

C9_LessEq(w, v) == w[1] < v[1] \/ (w[1] = v[1] /\ w[2] <= v[2])

\* C9 (under SpecCoord): each of coord_x, coord_y, coord_z returns
\* blockIdx * blockDim + threadIdx of its own axis modulo 2^32; when the grid
\* has at most 2^32 threads along that axis the value is below
\* gridDim * blockDim and no other thread of the grid gets the same value, and
\* the threads of a small grid get exactly 0 .. gridDim * blockDim - 1.
C9_Coordinates ==
    coord.axis \in Axes =>
        LET a == coord.axis
            g == gridDim[a]
            d == blockDim[a]
        IN  /\ coord.value = C9_Expected(blockIdx[a], d, threadIdx[a])
            /\ C9_InRange(g, d) =>
                  /\ C9_LessEq(coord.value, C9_Expected(g - 1, d, d - 1))
                  /\ \A bt \in C9_Threads(a) :
                        Coord(bt[1], d, bt[2]) = coord.value =>
                            bt = <<blockIdx[a], threadIdx[a]>>
            /\ (g <= MaxExtent /\ d <= MaxExtent) =>
                  {Coord(bt[1], d, bt[2])[2] : bt \in (0..(g - 1)) \X (0..(d - 1))}
                      = 0..(g * d - 1)

\* C9 witness: coord_x of thread 1023 of block 4194304 with 1024 threads per
\* block: 2^32 + 1023 wraps to 1023.
C9_Witness ==
    /\ coord.axis = "x"
    /\ blockIdx["x"] = 4194304
    /\ blockDim["x"] = 1024
    /\ threadIdx["x"] = 1023
    /\ coord.value = <<0, 1023>>

====
